---- MODULE Spec2Model ----
(***************************************************************************)
(* Notification pipeline of the gift bot: NotificationQueue and            *)
(* SmartNotificationEngine (src/notification_engine.py) driven by the      *)
(* fan-out of AdvancedGiftBot.handle_gift_event (src/main.py).             *)
(*                                                                         *)
(* Time is the wall clock in seconds.  NotificationJob objects live in a   *)
(* heap (jobs) and the queue list holds references (job ids) to them, so   *)
(* that a job appended twice is one object seen through two list slots.    *)
(*                                                                         *)
(* Specifications:                                                         *)
(*   Spec         the engine as the program runs it: gift events fan out   *)
(*                to jobs, the drain loop takes and sends them;            *)
(*   SpecQueue    the NotificationQueue class alone, driven through its    *)
(*                public methods with jobs of every priority;              *)
(*   SpecRate     the drain loop working off a backlog, second by second,  *)
(*                up to the messages_per_minute cap;                       *)
(*   SpecLoops    the engine with two drain loops on one queue;            *)
(*   SpecMonitor  TelegramGiftMonitor (src/gift_monitor.py) alone, polling *)
(*                the raw API or the feed file, with a callback that       *)
(*                records its calls;                                       *)
(*   SpecFrequency the engine with create_notification called directly for *)
(*                LIMITED_AVAILABLE notifications, over a full hour;       *)
(*   SpecFanout   the engine with a filter comparison that can raise for   *)
(*                one user of a fan-out;                                   *)
(*   SpecPipeline the monitor, handle_gift_event as its callback and the   *)
(*                drain loop together, every send acknowledged;            *)
(*                SpecPipelineFair adds that the loops and the clock go on;*)
(*   SpecFeed     _read_file_feed alone on a feed file that grows;         *)
(*   SpecShutdown the two loop tasks from their creation by start_services *)
(*                to their exit, with shutdown called at any point;        *)
(*                SpecShutdownFair adds that tasks and clock go on;        *)
(*   SpecTracked  the monitor on a catalog of one gift whose record varies *)
(*                in every field;                                          *)
(*   SpecGate     the same polls with handle_gift_event as callback and    *)
(*                the drain loop;                                          *)
(*   SpecDrain    the drain loop working off a backlog with every answer   *)
(*                of the send primitive; SpecDrainFair adds that the loop, *)
(*                the sends and the clock go on;                           *)
(*   SpecStartStop the engine with start_processing and stop_processing    *)
(*                called in any order.                                     *)
(***************************************************************************)
EXTENDS Integers, Sequences, FiniteSets, TLC

\* ------------------------------------------------------------------ bounds
MaxJobs == 2
MaxEvents == 3
MaxTime == 180
MaxQueueTime == 60
BacklogEvents == 11
MaxRateTime == 62
MaxLoopsTime == 60
MaxSnapshot == 2
MaxLines == 4
MaxMonitorTime == 120
MaxFreqJobs == 4
MaxFreqTime == 3600
PollHorizon == 60
MaxPipeLines == 2
MaxPipeTime == 360
StopHorizon == 60
MaxStopTime == 180
MaxFeedFile == 3
MaxDrainJobs == 2
MaxDrainTime == 300
TickSteps == {60}
RateTickSteps == {1, 60}
FloodWaitSecs == {30, 90}
FreqTickSteps == {1800}

\* ------------------------------------------------------- program constants
LOW == 1
NORMAL == 2
HIGH == 3
URGENT == 4
Priorities == {LOW, NORMAL, HIGH, URGENT}

NEW_GIFT == "new_gift"
GIFT_UPDATE == "gift_update"
PRICE_DROP == "price_drop"
LIMITED_AVAILABLE == "limited_available"
SYSTEM_ALERT == "system_alert"
PROMOTION == "promotion"

DefaultMaxAttempts == 3
DefaultRequeueDelay == 60
MessagesPerMinute == 20
RateWindowSecs == 60
HistoryWindowSecs == 3600
DrainIntervalSecs == 1

None == 0

\* Notification types that load_notification_templates gives a template.
Templates == {NEW_GIFT, PRICE_DROP, LIMITED_AVAILABLE}

\* Rows of the users table when the engine is constructed.
Users == {1, 2}
UserRows ==
    (1 :> [min_stars |-> 0, max_stars |-> 1000000, only_limited |-> TRUE]) @@
    (2 :> [min_stars |-> 100, max_stars |-> 200, only_limited |-> TRUE])

\* Gift records the detector hands to the callback.
Gifts ==
    { [id |-> 42, stars |-> 150, limited |-> TRUE],
      [id |-> 7,  stars |-> 50,  limited |-> TRUE] }
EventTypes == {"new", "updated"}

\* TelegramGiftMonitor.check_interval
CheckInterval == 3

\* Branches of get_star_gifts: the raw API call and the local file feed.
Sources == {"pyrogram", "file"}

\* Change tokens the remote catalog answers with; 0 is the token of a
\* monitor that has fetched nothing.
RemoteHashes == {1, 2}

\* int(datetime.now().timestamp()) when the model's clock reads 0.
ClockBase == 1000

\* Gift records as _parse_gift and _read_file_feed build them.
FeedGifts ==
    { [id |-> 1, stars |-> 100, limited |-> TRUE, sold_out |-> FALSE,
       availability_remains |-> 10],
      [id |-> 1, stars |-> 100, limited |-> TRUE, sold_out |-> TRUE,
       availability_remains |-> 10],
      [id |-> 2, stars |-> 100, limited |-> TRUE, sold_out |-> FALSE,
       availability_remains |-> 10],
      [id |-> 2, stars |-> 100, limited |-> FALSE, sold_out |-> FALSE,
       availability_remains |-> 10] }

\* Gift lists a remote answer can carry: a catalog listing, one record per
\* gift id.
Snapshots ==
    { s \in UNION { [1..n -> FeedGifts] : n \in 1..MaxSnapshot } :
          \A i, k \in 1..Len(s) : s[i].id = s[k].id => i = k }

\* Lines of the feed file: a JSON object with a gift, or text that
\* json.loads rejects.
FeedLines ==
    { [json_ok |-> TRUE, gift |-> g] : g \in FeedGifts } \cup
    { [json_ok |-> FALSE, gift |-> CHOOSE g \in FeedGifts : TRUE] }

VARIABLES
    now,                  \* wall clock, seconds
    jobs,                 \* heap of NotificationJob objects, by job id
    queue,                \* NotificationQueue.queue: list of job references
    processing,           \* NotificationQueue.processing
    stats,                \* NotificationQueue.stats
    sent_messages,        \* SmartNotificationEngine.sent_messages
    notification_history, \* SmartNotificationEngine.notification_history
    enabled,              \* users.notifications_enabled in the database
    gifts_db,             \* gifts table of the database, by gift id
    bot_stats,            \* AdvancedGiftBot.stats
    pc,                   \* position of the drain loop
    job,                  \* local variable job of _process_queue
    wake_at,              \* end of the drain loop's current sleep
    held,                 \* SpecQueue: jobs a caller got from get_next_job
    audit,                \* per job: what the send primitive reported
    flood_until,          \* latest end of a mandatory wait reported so far
    last,                 \* the step just taken
    other,                \* pc, job and wake_at of a second drain loop
    source,               \* which branch of get_star_gifts answers
    last_hash,            \* TelegramGiftMonitor.last_hash
    known_gifts,          \* TelegramGiftMonitor.known_gifts, by gift id
    feed_unread,          \* lines of the feed file beyond _file_offset
    file_offset,          \* TelegramGiftMonitor._file_offset, in lines
    mon_pc,               \* position of start_monitoring
    mon_wake_at,          \* end of the monitor loop's current sleep
    gifts_data,           \* what the latest get_star_gifts call returned
    diffed,               \* whether the latest poll cycle ran the diff
    delivered,            \* callback calls of the latest poll cycle
    reported,             \* ids of the available gifts polls reported as new
    feed_file,            \* SpecFeed: every line of the feed file
    returned,             \* SpecFeed: per line, the reads that returned it
    baseline,             \* ids start_monitoring stored from its first fetch
    running,              \* SmartNotificationEngine.running
    monitoring_active,    \* TelegramGiftMonitor.monitoring_active
    stopping              \* whether AdvancedGiftBot.shutdown has been called

\* State of the TelegramGiftMonitor object and of its feed.
MonitorVars == << source, last_hash, known_gifts, feed_unread, file_offset,
                 mon_pc, mon_wake_at, gifts_data, diffed, delivered,
                 reported, feed_file, returned, baseline >>

\* The flags the loops test at the top of each iteration.
LoopFlags == << running, monitoring_active, stopping >>

vars == << now, jobs, queue, processing, stats, sent_messages,
           notification_history, enabled, gifts_db, bot_stats, pc, job, wake_at, held, audit,
           flood_until, last, other, MonitorVars, LoopFlags >>

\* ---------------------------------------------------------- NotificationJob
NotificationJob(id, user_id, message, ntype, priority, t) ==
    [ id |-> id, user_id |-> user_id, message |-> message,
      notification_type |-> ntype, priority |-> priority,
      created_at |-> t, scheduled_at |-> t,
      attempts |-> 0, max_attempts |-> DefaultMaxAttempts ]

\* ------------------------------------------------------- NotificationQueue
\* A queue state Q bundles the job heap with the queue's own fields.
QState(jb, q, st) == [jobs |-> jb, queue |-> q, stats |-> st]

\* key=lambda x: (x.priority.value, x.created_at), compared as tuples
KeyLess(a, b) ==
    \/ a.priority < b.priority
    \/ a.priority = b.priority /\ a.created_at < b.created_at

\* list.sort(key=..., reverse=True) is stable: equal keys keep their order.
RECURSIVE InsertDesc(_, _, _)
InsertDesc(s, x, jb) ==
    IF s = << >> THEN << x >>
    ELSE IF KeyLess(jb[Head(s)], jb[x]) THEN << x >> \o s
    ELSE << Head(s) >> \o InsertDesc(Tail(s), x, jb)

RECURSIVE SortDesc(_, _)
SortDesc(s, jb) ==
    IF s = << >> THEN << >>
    ELSE InsertDesc(SortDesc(SubSeq(s, 1, Len(s) - 1), jb), s[Len(s)], jb)

add_job_unsorted(Q, j) ==
    [Q EXCEPT !.queue = Append(Q.queue, j),
              !.stats.total_queued = @ + 1]

add_job(Q, j) ==
    [Q EXCEPT !.queue = SortDesc(Append(Q.queue, j), Q.jobs),
              !.stats.total_queued = @ + 1]

Eligible(jrec, t) ==
    jrec.scheduled_at <= t /\ jrec.attempts < jrec.max_attempts

RemoveAt(s, i) == SubSeq(s, 1, i - 1) \o SubSeq(s, i + 1, Len(s))

\* Index of the first eligible entry, 0 when there is none.
NextIndex(Q, t) ==
    LET idx == { i \in 1..Len(Q.queue) : Eligible(Q.jobs[Q.queue[i]], t) }
    IN  IF idx = {} THEN 0
        ELSE CHOOSE i \in idx : \A k \in idx : i <= k

\* get_next_job: the job returned (None when none) and the queue after pop.
get_next_job(Q, t) ==
    LET i == NextIndex(Q, t)
    IN  IF i = 0 THEN [job |-> None, Q |-> Q]
        ELSE [job |-> Q.queue[i],
              Q |-> [Q EXCEPT !.queue = RemoveAt(Q.queue, i)]]

requeue_job_nodelay(Q, j, delay_seconds, t) ==
    LET Q1 == [Q EXCEPT !.jobs[j].attempts = @ + 1,
                        !.jobs[j].scheduled_at = t]
    IN  IF Q1.jobs[j].attempts < Q1.jobs[j].max_attempts
        THEN add_job(Q1, j)
        ELSE [Q1 EXCEPT !.stats.total_failed = @ + 1]

requeue_job(Q, j, delay_seconds, t) ==
    LET Q1 == [Q EXCEPT !.jobs[j].attempts = @ + 1,
                        !.jobs[j].scheduled_at = t + delay_seconds]
    IN  IF Q1.jobs[j].attempts < Q1.jobs[j].max_attempts
        THEN add_job(Q1, j)
        ELSE [Q1 EXCEPT !.stats.total_failed = @ + 1]

\* -------------------------------------------------- SmartNotificationEngine
\* An engine state E bundles the heap, the queue and the frequency history;
\* raised tells whether the call working on it has raised an exception.
EState(jb, q, st, h) ==
    [jobs |-> jb, queue |-> q, stats |-> st, history |-> h,
     raised |-> FALSE]

QOf(E) == QState(E.jobs, E.queue, E.stats)
WithQ(E, Q) ==
    [E EXCEPT !.jobs = Q.jobs, !.queue = Q.queue, !.stats = Q.stats]

\* [n for n in user_history if now - n['timestamp'] < window]
RECURSIVE PruneHistory(_, _, _)
PruneHistory(s, t, window) ==
    IF s = << >> THEN << >>
    ELSE IF t - Head(s).timestamp < window
         THEN << Head(s) >> \o PruneHistory(Tail(s), t, window)
         ELSE PruneHistory(Tail(s), t, window)

CountType(s, ntype) ==
    Cardinality({ i \in 1..Len(s) : s[i].type = ntype })

FrequencyLimit(ntype) ==
    CASE ntype = NEW_GIFT -> 10
      [] ntype = PRICE_DROP -> 5
      [] ntype = LIMITED_AVAILABLE -> 3
      [] ntype = SYSTEM_ALERT -> 2
      [] OTHER -> 5

\* _check_notification_frequency: prunes the user's history, then decides.
check_notification_frequency(h, user_id, ntype, t) ==
    LET user_history == PruneHistory(h[user_id], t, HistoryWindowSecs)
    IN  [ history |-> [h EXCEPT ![user_id] = user_history],
          ok |-> CountType(user_history, ntype) < FrequencyLimit(ntype) ]

\* should_notify_user.  load_user_filters sets min_stars, max_stars and
\* only_limited; the other NotificationFilter fields keep their defaults
\* (False / None), so their checks never reject.
should_notify_user(h, user_id, gift_data, ntype, t) ==
    IF user_id \notin DOMAIN UserRows THEN [history |-> h, ok |-> FALSE]
    ELSE LET user_filter == UserRows[user_id]
         IN  IF \/ gift_data.stars < user_filter.min_stars
                \/ gift_data.stars > user_filter.max_stars
             THEN [history |-> h, ok |-> FALSE]
             ELSE IF user_filter.only_limited /\ ~gift_data.limited
             THEN [history |-> h, ok |-> FALSE]
             ELSE check_notification_frequency(h, user_id, ntype, t)

\* The for loop of create_notification over user_ids, in list order.  The
\* job id (md5 of user id, type and the microsecond timestamp) is a fresh
\* value per job: the job's index in the heap.  created_at and scheduled_at
\* are the clock reading of the step.  raises is the set of users for whom
\* a comparison of should_notify_user raises (a filter field that is not a
\* number): nothing in the loop catches it, so the call ends there.
\* _generate_message and _generate_buttons catch what they raise and return
\* a fallback, so rendering never ends the loop or skips a user.
RECURSIVE create_loop(_, _, _, _, _, _, _)
create_loop(E, user_ids, gift_data, ntype, priority, t, raises) ==
    IF user_ids = << >> THEN E
    ELSE IF Head(user_ids) \in raises \cap DOMAIN UserRows
    THEN [E EXCEPT !.raised = TRUE]
    ELSE LET user_id == Head(user_ids)
             d == should_notify_user(E.history, user_id, gift_data, ntype, t)
             E1 == [E EXCEPT !.history = d.history]
             job_id == Len(E1.jobs) + 1
             newjob == NotificationJob(job_id, user_id, gift_data.id,
                                       ntype, priority, t)
             E2 == [E1 EXCEPT !.jobs = Append(@, newjob)]
             E3 == WithQ(E2, add_job(QOf(E2), job_id))
         IN  create_loop(IF d.ok THEN E3 ELSE E1, Tail(user_ids),
                         gift_data, ntype, priority, t, raises)

create_notification_first(E, user_ids, gift_data, ntype, priority, t, raises) ==
    IF ntype \notin Templates THEN E
    ELSE create_loop(E, SubSeq(user_ids, 1, 1), gift_data, ntype, priority,
                     t, raises)

create_notification(E, user_ids, gift_data, ntype, priority, t, raises) ==
    IF ntype \notin Templates THEN E
    ELSE create_loop(E, user_ids, gift_data, ntype, priority, t, raises)

\* _check_rate_limits: prunes sent_messages, then compares with the cap.
PruneSent(s, t) ==
    SelectSeq(s, LAMBDA msg : t - msg < RateWindowSecs)

check_rate_limits_inclusive(s, t) ==
    Len(PruneSent(s, t)) <= MessagesPerMinute

check_rate_limits(s, t) == Len(PruneSent(s, t)) < MessagesPerMinute

\* _record_notification
record_notification(h, jrec, t) ==
    [h EXCEPT ![jrec.user_id] =
        Append(@, [type |-> jrec.notification_type, timestamp |-> t,
                   job_id |-> jrec.id])]

\* _mark_user_inactive: UPDATE users SET notifications_enabled = 0
mark_user_inactive_noop(db, user_id) == db

mark_user_inactive(db, user_id) == [db EXCEPT ![user_id] = FALSE]

\* DatabaseManager.get_all_users: rows WHERE notifications_enabled = 1,
\* in primary-key order.
RECURSIVE SeqOfSet(_)
SeqOfSet(S) ==
    IF S = {} THEN << >>
    ELSE LET m == CHOOSE x \in S : \A y \in S : x <= y
         IN  << m >> \o SeqOfSet(S \ {m})

get_all_users(db) == SeqOfSet({ u \in DOMAIN db : db[u] })

\* DatabaseManager.add_gift: INSERT OR REPLACE INTO gifts
add_gift(db, gift_data) ==
    [ g \in DOMAIN db \cup {gift_data.id} |->
        IF g = gift_data.id THEN gift_data ELSE db[g] ]

\* ------------------------------------------------------------ AdvancedGiftBot
\* A bot state B bundles what handle_gift_event reads and writes: the
\* engine's heap, queue and history, the database and the bot's counters.
BState(jb, q, st, h, en, db, bs) ==
    [jobs |-> jb, queue |-> q, stats |-> st, history |-> h,
     enabled |-> en, gifts_db |-> db, bot_stats |-> bs]

\* handle_gift_event at clock reading t.  An exception raised inside
\* create_notification skips the rest of the try block and is counted.
handle_gift_event(B, gift_data, event_type, t, raises) ==
    LET ntype == IF event_type = "new" THEN NEW_GIFT
                 ELSE IF event_type = "updated" THEN GIFT_UPDATE
                 ELSE NEW_GIFT
        priority == IF event_type = "new" THEN HIGH ELSE NORMAL
        active_users == get_all_users(B.enabled)
        user_ids == SelectSeq(active_users, LAMBDA u : B.enabled[u])
        B0 == [B EXCEPT !.bot_stats.gifts_processed = @ + 1]
        E1 == create_notification(
                  EState(B.jobs, B.queue, B.stats, B.history),
                  user_ids, gift_data, ntype, priority, t, raises)
        B1 == [B0 EXCEPT !.jobs = E1.jobs, !.queue = E1.queue,
                         !.stats = E1.stats, !.history = E1.history]
    IN  IF user_ids = << >> THEN B0
        ELSE IF E1.raised
        THEN [B1 EXCEPT !.bot_stats.errors_occurred = @ + 1]
        ELSE [B1 EXCEPT
                 !.bot_stats.notifications_sent =
                     @ + Len(E1.jobs) - Len(B.jobs),
                 !.gifts_db = add_gift(@, gift_data)]

\* ------------------------------------------------------ TelegramGiftMonitor
\* _gift_changed
gift_changed_any(old_gift, new_gift) == old_gift # new_gift

gift_changed(old_gift, new_gift) ==
    \/ old_gift.sold_out # new_gift.sold_out
    \/ old_gift.availability_remains # new_gift.availability_remains
    \/ old_gift.stars # new_gift.stars

\* _should_notify
should_notify_any(gift) == TRUE

should_notify(gift) ==
    gift.limited /\ ~gift.sold_out /\ gift.stars > 0

\* self.known_gifts[gift_id] = gift
store_gift_keep(known, gift) ==
    [ g \in DOMAIN known \cup {gift.id} |->
        IF g \in DOMAIN known THEN known[g] ELSE gift ]

store_gift(known, gift) ==
    [ g \in DOMAIN known \cup {gift.id} |->
        IF g = gift.id THEN gift ELSE known[g] ]

\* The baseline loop of start_monitoring over the initial gift list.
RECURSIVE store_all(_, _)
store_all(known, gifts) ==
    IF gifts = << >> THEN known
    ELSE store_all(store_gift(known, Head(gifts)), Tail(gifts))

\* The for loop of _check_for_new_gifts from list position pos on.  D holds
\* known_gifts and the lists new_gifts and updated_gifts; each list entry
\* keeps the position the gift has in the snapshot.
RECURSIVE diff_loop(_, _, _)
diff_loop(D, gifts, pos) ==
    IF pos > Len(gifts) THEN D
    ELSE LET gift == gifts[pos]
             e == [gift |-> gift, pos |-> pos]
         IN  IF gift.id \notin DOMAIN D.known
             THEN diff_loop([D EXCEPT !.new_gifts = Append(@, e),
                                      !.known = store_gift(@, gift)],
                            gifts, pos + 1)
             ELSE IF gift_changed(D.known[gift.id], gift)
             THEN diff_loop([D EXCEPT !.updated_gifts = Append(@, e),
                                      !.known = store_gift(@, gift)],
                            gifts, pos + 1)
             ELSE diff_loop(D, gifts, pos + 1)

\* for gift in lst: if self._should_notify(gift): await callback_func(...)
RECURSIVE callbacks(_, _)
callbacks(lst, event_type) ==
    IF lst = << >> THEN << >>
    ELSE (IF should_notify(Head(lst).gift)
          THEN << [gift |-> Head(lst).gift, event_type |-> event_type,
                   pos |-> Head(lst).pos] >>
          ELSE << >>) \o callbacks(Tail(lst), event_type)

\* A monitor state M bundles last_hash and known_gifts; the result adds
\* whether the diff ran and the callback calls made, in order.
MState_forget(h, known) == [last_hash |-> h, known |-> << >>]

MState(h, known) == [last_hash |-> h, known |-> known]

\* start_monitoring's baseline, given what the initial get_star_gifts call
\* returned: the token is taken and every gift is stored, no callback call.
initial_gifts_ignored(M, data) == M

initial_gifts(M, data) ==
    IF data.ok THEN MState(data.hash, store_all(M.known, data.gifts)) ELSE M

Cycle(h, known, ran, calls) ==
    [last_hash |-> h, known |-> known, diffed |-> ran, delivered |-> calls]

\* _check_for_new_gifts from the token comparison on: the diff and the
\* callback calls, skipped when the token equals last_hash.
diff_if_changed_nohash(M, data) ==
    LET D == diff_loop([known |-> M.known, new_gifts |-> << >>,
                        updated_gifts |-> << >>], data.gifts, 1)
    IN  Cycle(data.hash, D.known, TRUE,
              callbacks(D.new_gifts, "new") \o
              callbacks(D.updated_gifts, "updated"))

diff_if_changed(M, data) ==
    IF data.hash = M.last_hash
    THEN Cycle(M.last_hash, M.known, FALSE, << >>)
    ELSE LET D == diff_loop([known |-> M.known, new_gifts |-> << >>,
                             updated_gifts |-> << >>], data.gifts, 1)
         IN  Cycle(data.hash, D.known, TRUE,
                   callbacks(D.new_gifts, "new") \o
                   callbacks(D.updated_gifts, "updated"))

\* _check_for_new_gifts, given what get_star_gifts returned.
check_for_new_gifts_clear(M, data) ==
    IF ~data.ok THEN Cycle(0, << >>, FALSE, << >>)
    ELSE diff_if_changed(M, data)

check_for_new_gifts(M, data) ==
    IF ~data.ok THEN Cycle(M.last_hash, M.known, FALSE, << >>)
    ELSE diff_if_changed(M, data)

\* get_star_gifts returned None.
NoData == [ok |-> FALSE, hash |-> 0, gifts |-> << >>]

\* The raw API call of get_star_gifts(hash_value): None on any exception
\* and on an answer without gifts, else the answer's token and gift list.
\* The catalog answers with gifts only under a token other than the one
\* it was sent.
RemoteAnswers(hash_value) ==
    {NoData} \cup
    { [ok |-> TRUE, hash |-> x, gifts |-> S] :
          x \in RemoteHashes \ {hash_value}, S \in Snapshots }

\* The line loop of _read_file_feed: lines json.loads rejects are skipped.
RECURSIVE parse_lines(_)
parse_lines(lines) ==
    IF lines = << >> THEN << >>
    ELSE (IF Head(lines).json_ok THEN << Head(lines).gift >> ELSE << >>)
         \o parse_lines(Tail(lines))

\* _read_file_feed on the unread lines at clock reading t: None when no
\* line yields a gift, else the clock second as token.
read_file_feed(lines, t) ==
    LET gifts == parse_lines(lines)
    IN  IF gifts = << >> THEN NoData
        ELSE [ok |-> TRUE, hash |-> ClockBase + t, gifts |-> gifts]

\* self._file_offset = f.tell() after the line loop has read lines from
\* the position offset to the end of the file.
next_file_offset_stale(offset, lines) == offset

next_file_offset(offset, lines) == offset + Len(lines)

\* ------------------------------------------------------------------- state
AuditZero == [fails |-> 0, acks |-> 0, counted |-> 0, unreachable |-> FALSE]

Step(op, j, n) == [op |-> op, job |-> j, n |-> n]

Max(a, b) == IF a >= b THEN a ELSE b

\* The engine, the queue and the database after construction, with
\* start_processing at the top of its loop (running is set).
EngineInit ==
    /\ now = 0
    /\ jobs = << >>
    /\ queue = << >>
    /\ processing = FALSE
    /\ stats = [total_queued |-> 0, total_sent |-> 0, total_failed |-> 0]
    /\ sent_messages = << >>
    /\ notification_history = [u \in Users |-> << >>]
    /\ enabled = [u \in Users |-> TRUE]
    /\ gifts_db = << >>
    /\ bot_stats = [gifts_processed |-> 0, notifications_sent |-> 0,
                    errors_occurred |-> 0]
    /\ pc = "idle"
    /\ job = None
    /\ wake_at = 0
    /\ held = {}
    /\ audit = << >>
    /\ flood_until = 0
    /\ last = Step("init", None, 0)
    /\ running = TRUE
    /\ stopping = FALSE

\* A drain loop that was never started.
LoopOff == [pc |-> "off", job |-> None, wake_at |-> 0]

\* TelegramGiftMonitor.__init__; the feed file has nothing to read yet.
MonitorInit ==
    /\ last_hash = 0
    /\ known_gifts = << >>
    /\ feed_unread = << >>
    /\ file_offset = 0
    /\ mon_pc = "start"
    /\ mon_wake_at = 0
    /\ gifts_data = NoData
    /\ diffed = FALSE
    /\ delivered = << >>
    /\ reported = {}
    /\ feed_file = << >>
    /\ returned = << >>
    /\ baseline = {}
    /\ monitoring_active = FALSE

Init ==
    /\ EngineInit
    /\ other = LoopOff
    /\ source = "pyrogram"
    /\ MonitorInit

\* The wall clock advances.
Tick ==
    \E d \in TickSteps :
        /\ now + d <= MaxTime
        /\ now' = now + d
        /\ last' = Step("tick", None, d)
        /\ UNCHANGED << jobs, queue, processing, stats, sent_messages,
                        notification_history, enabled, gifts_db, bot_stats,
                        pc, job, wake_at, held, audit, flood_until >>
        /\ UNCHANGED << other, MonitorVars, LoopFlags >>

\* ------------------------------------------------------------ fan-out
\* AdvancedGiftBot.handle_gift_event (no suspension point inside), called
\* with a well-formed gift: no filter comparison raises.
HandleGiftEvent ==
    \E gift_data \in Gifts, event_type \in EventTypes :
        LET B == BState(jobs, queue, stats, notification_history, enabled,
                        gifts_db, bot_stats)
            B1 == handle_gift_event(B, gift_data, event_type, now, {})
            created == Len(B1.jobs) - Len(jobs)
        IN  /\ bot_stats.gifts_processed < MaxEvents
            /\ Len(B1.jobs) <= MaxJobs
            /\ jobs' = B1.jobs
            /\ queue' = B1.queue
            /\ stats' = B1.stats
            /\ notification_history' = B1.history
            /\ gifts_db' = B1.gifts_db
            /\ bot_stats' = B1.bot_stats
            /\ audit' = audit \o [i \in 1..created |-> AuditZero]
            /\ last' = Step(IF event_type = "new" THEN "event"
                            ELSE "event_updated", gift_data.id, created)
            /\ UNCHANGED << now, processing, sent_messages, enabled, pc,
                            job, wake_at, held, flood_until >>
            /\ UNCHANGED << other, MonitorVars, LoopFlags >>

\* ------------------------------------------------------------ drain loop
\* One iteration of start_processing's loop up to the await of the send
\* primitive: _process_queue from its entry to _send_notification's call of
\* client.send_message.  An iteration that returns early goes to sleep.
ProcessQueue ==
    /\ pc = "idle"
    /\ running
    /\ now >= wake_at
    /\ IF processing
       THEN /\ wake_at' = now + DrainIntervalSecs
            /\ last' = Step("busy", None, 0)
            /\ UNCHANGED << queue, processing, sent_messages, pc, job >>
       ELSE LET r == get_next_job(QState(jobs, queue, stats), now)
            IN  /\ sent_messages' = PruneSent(sent_messages, now)
                /\ IF ~check_rate_limits(sent_messages, now) \/ r.job = None
                   THEN /\ processing' = FALSE
                        /\ wake_at' = now + DrainIntervalSecs
                        /\ last' = Step("none", None, 0)
                        /\ UNCHANGED << queue, pc, job >>
                   ELSE /\ processing' = TRUE
                        /\ queue' = r.Q.queue
                        /\ job' = r.job
                        /\ pc' = "send"
                        /\ last' = Step("take", r.job, 0)
                        /\ UNCHANGED wake_at
    /\ UNCHANGED << now, jobs, stats, notification_history, enabled,
                    gifts_db, bot_stats, held, audit, flood_until >>
    /\ UNCHANGED << other, MonitorVars, LoopFlags >>

\* What every completed send has in common: the finally clause of
\* _process_queue and the loop's sleep.
EndIteration_keepflag ==
    /\ UNCHANGED processing
    /\ pc' = "idle"
    /\ job' = None
    /\ wake_at' = now + DrainIntervalSecs

EndIteration ==
    /\ processing' = FALSE
    /\ pc' = "idle"
    /\ job' = None
    /\ wake_at' = now + DrainIntervalSecs

\* client.send_message returned: _send_notification returns True.
SendAck ==
    /\ pc = "send"
    /\ sent_messages' = Append(sent_messages, now)
    /\ stats' = [stats EXCEPT !.total_sent = @ + 1]
    /\ notification_history' =
           record_notification(notification_history, jobs[job], now)
    /\ audit' = [audit EXCEPT ![job].acks = @ + 1]
    /\ last' = Step("ack", job, 0)
    /\ EndIteration
    /\ UNCHANGED << now, jobs, queue, enabled, gifts_db, bot_stats, held,
                    flood_until >>
    /\ UNCHANGED << other, MonitorVars, LoopFlags >>

\* client.send_message raised FloodWait(n): the except branch requeues the
\* job and returns False, and _process_queue requeues it again.
SendFloodWait ==
    \E n \in FloodWaitSecs :
        LET Q0 == QState([jobs EXCEPT ![job].scheduled_at = now + n],
                         queue, stats)
            Q1 == requeue_job(Q0, job, n, now)
            Q2 == requeue_job(Q1, job, DefaultRequeueDelay, now)
        IN  /\ pc = "send"
            /\ jobs' = Q2.jobs
            /\ queue' = Q2.queue
            /\ stats' = Q2.stats
            /\ audit' = [audit EXCEPT
                   ![job].fails = @ + 1,
                   ![job].counted =
                       @ + Q2.stats.total_failed - stats.total_failed]
            /\ flood_until' = Max(flood_until, now + n)
            /\ last' = Step("flood", job, n)
            /\ EndIteration
            /\ UNCHANGED << now, sent_messages, notification_history,
                            enabled, gifts_db, bot_stats, held >>
            /\ UNCHANGED << other, MonitorVars, LoopFlags >>

\* client.send_message raised UserIsBlocked or ChatWriteForbidden: the user
\* is marked inactive, False is returned and _process_queue requeues.
SendUnreachable ==
    LET Q1 == requeue_job(QState(jobs, queue, stats), job,
                          DefaultRequeueDelay, now)
    IN  /\ pc = "send"
        /\ enabled' = mark_user_inactive(enabled, jobs[job].user_id)
        /\ jobs' = Q1.jobs
        /\ queue' = Q1.queue
        /\ stats' = Q1.stats
        /\ audit' = [audit EXCEPT
               ![job].fails = @ + 1,
               ![job].unreachable = TRUE,
               ![job].counted =
                   @ + Q1.stats.total_failed - stats.total_failed]
        /\ last' = Step("unreachable", job, 0)
        /\ EndIteration
        /\ UNCHANGED << now, sent_messages, notification_history, gifts_db,
                        bot_stats, held, flood_until >>
        /\ UNCHANGED << other, MonitorVars, LoopFlags >>

\* client.send_message raised any other exception.
SendError ==
    LET Q1 == requeue_job(QState(jobs, queue, stats), job,
                          DefaultRequeueDelay, now)
    IN  /\ pc = "send"
        /\ jobs' = Q1.jobs
        /\ queue' = Q1.queue
        /\ stats' = Q1.stats
        /\ audit' = [audit EXCEPT
               ![job].fails = @ + 1,
               ![job].counted =
                   @ + Q1.stats.total_failed - stats.total_failed]
        /\ last' = Step("error", job, 0)
        /\ EndIteration
        /\ UNCHANGED << now, sent_messages, notification_history, enabled,
                        gifts_db, bot_stats, held, flood_until >>
        /\ UNCHANGED << other, MonitorVars, LoopFlags >>

Next ==
    \/ Tick
    \/ HandleGiftEvent
    \/ ProcessQueue
    \/ SendAck
    \/ SendFloodWait
    \/ SendUnreachable
    \/ SendError

Spec == Init /\ [][Next]_vars

TypeOK ==
    /\ now \in 0..MaxTime
    /\ Len(jobs) <= MaxJobs
    /\ \A i \in 1..Len(queue) : queue[i] \in 1..Len(jobs)
    /\ processing \in BOOLEAN
    /\ pc \in {"idle", "send"}
    /\ (pc = "send") <=> (job # None)
    /\ Len(audit) = Len(jobs)

\* ------------------------------------------- NotificationQueue on its own
\* The queue class driven through add_job, get_next_job and requeue_job by
\* a caller that owns the job it took (held) until it requeues it, and takes
\* one job at a time.  Jobs are added with any priority.
EngineVars == << processing, sent_messages, notification_history, enabled,
                 gifts_db, bot_stats, pc, job, wake_at, flood_until, other,
                 MonitorVars, LoopFlags >>

QAddJob ==
    \E priority \in Priorities :
        LET job_id == Len(jobs) + 1
            newjob == NotificationJob(job_id, 1, 42, NEW_GIFT,
                                      priority, now)
            Q == add_job(QState(Append(jobs, newjob), queue, stats), job_id)
        IN  /\ Len(jobs) < MaxJobs
            /\ jobs' = Q.jobs
            /\ queue' = Q.queue
            /\ stats' = Q.stats
            /\ audit' = Append(audit, AuditZero)
            /\ last' = Step("add_job", job_id, 0)
            /\ UNCHANGED << now, held >>
            /\ UNCHANGED EngineVars

QGetNextJob ==
    LET r == get_next_job(QState(jobs, queue, stats), now)
    IN  /\ held = {}
        /\ queue' = r.Q.queue
        /\ held' = IF r.job = None THEN held ELSE held \cup {r.job}
        /\ last' = Step("get_next_job", r.job, 0)
        /\ UNCHANGED << now, jobs, stats, audit >>
        /\ UNCHANGED EngineVars

QRequeueJob ==
    \E j \in held, delay_seconds \in {DefaultRequeueDelay} \cup FloodWaitSecs :
        LET Q == requeue_job(QState(jobs, queue, stats), j,
                             delay_seconds, now)
        IN  /\ jobs' = Q.jobs
            /\ queue' = Q.queue
            /\ stats' = Q.stats
            /\ held' = held \ {j}
            /\ last' = Step("requeue_job", j, delay_seconds)
            /\ UNCHANGED << now, audit >>
            /\ UNCHANGED EngineVars

QTick ==
    /\ \E d \in TickSteps : now + d <= MaxQueueTime
    /\ Tick

\* requeue_job called twice in a row on a held job, as the FloodWait branch
\* of _send_notification followed by _process_queue calls it.
QRequeueTwice ==
    \E j \in held, n \in FloodWaitSecs :
        LET Q1 == requeue_job(QState(jobs, queue, stats), j, n, now)
            Q2 == requeue_job(Q1, j, DefaultRequeueDelay, now)
        IN  /\ jobs' = Q2.jobs
            /\ queue' = Q2.queue
            /\ stats' = Q2.stats
            /\ held' = held \ {j}
            /\ last' = Step("requeue_twice", j, n)
            /\ UNCHANGED << now, audit >>
            /\ UNCHANGED EngineVars

NextQueue ==
    \/ QTick
    \/ QRequeueTwice
    \/ QAddJob
    \/ QGetNextJob
    \/ QRequeueJob

SpecQueue == Init /\ [][NextQueue]_vars

\* ------------------------------------------------- drain loop at the cap
\* The engine with a backlog: BacklogEvents 'new' events for gift 42 have
\* fanned out to both users at time 0 and nothing has been sent yet.  The
\* drain loop runs as soon as its sleep ends and every send is acknowledged
\* at once, so the clock only advances while the loop sleeps.
BacklogGift == [id |-> 42, stars |-> 150, limited |-> TRUE]

\* The jobs of the backlog: create_notification makes one for user 1 and
\* one for user 2 per event, all HIGH and created at time 0.
BacklogJobs ==
    [ i \in 1..(2 * BacklogEvents) |->
        NotificationJob(i, IF i % 2 = 1 THEN 1 ELSE 2, BacklogGift.id,
                        NEW_GIFT, HIGH, 0) ]

\* add_job's stable sort leaves jobs of equal key in insertion order.
InitRate ==
    /\ now = 0
    /\ jobs = BacklogJobs
    /\ queue = [ i \in 1..Len(BacklogJobs) |-> i ]
    /\ stats = [total_queued |-> Len(BacklogJobs), total_sent |-> 0,
                total_failed |-> 0]
    /\ notification_history = [u \in Users |-> << >>]
    /\ processing = FALSE
    /\ sent_messages = << >>
    /\ enabled = [u \in Users |-> TRUE]
    /\ gifts_db = add_gift(<< >>, BacklogGift)
    /\ bot_stats = [gifts_processed |-> BacklogEvents,
                    notifications_sent |-> Len(BacklogJobs),
                    errors_occurred |-> 0]
    /\ pc = "idle"
    /\ job = None
    /\ wake_at = 0
    /\ held = {}
    /\ audit = [ i \in 1..Len(BacklogJobs) |-> AuditZero ]
    /\ flood_until = 0
    /\ last = Step("init", None, 0)
    /\ running = TRUE
    /\ stopping = FALSE
    /\ other = LoopOff
    /\ source = "pyrogram"
    /\ MonitorInit

\* The clock advances while the drain loop sleeps.
RateTick ==
    \E d \in RateTickSteps :
        /\ pc = "idle"
        /\ now < wake_at
        /\ now + d <= MaxRateTime
        /\ now' = now + d
        /\ last' = Step("tick", None, d)
        /\ UNCHANGED << jobs, queue, processing, stats, sent_messages,
                        notification_history, enabled, gifts_db, bot_stats,
                        pc, job, wake_at, held, audit, flood_until >>
        /\ UNCHANGED << other, MonitorVars, LoopFlags >>

NextRate ==
    \/ RateTick
    \/ ProcessQueue
    \/ SendAck

SpecRate == InitRate /\ [][NextRate]_vars

\* ------------------------------------------------------ two drain loops
\* start_processing, stop_processing while the loop sleeps, start_processing
\* again: the first loop finds running set when it wakes and goes on, so two
\* loops run _process_queue on one queue.  pc, job and wake_at belong to the
\* loop the event loop is running; other holds those of the loop that is
\* suspended in its sleep or in the await of the send.
InitLoops ==
    /\ EngineInit
    /\ other = [pc |-> "idle", job |-> None, wake_at |-> 0]
    /\ source = "pyrogram"
    /\ MonitorInit

\* The event loop resumes the other drain loop.
SwitchLoop ==
    /\ other.pc # "off"
    /\ other' = [pc |-> pc, job |-> job, wake_at |-> wake_at]
    /\ pc' = other.pc
    /\ job' = other.job
    /\ wake_at' = other.wake_at
    /\ last' = Step("switch", None, 0)
    /\ UNCHANGED << now, jobs, queue, processing, stats, sent_messages,
                    notification_history, enabled, gifts_db, bot_stats,
                    held, audit, flood_until >>
    /\ UNCHANGED << MonitorVars, LoopFlags >>

LoopsTick ==
    /\ \E d \in TickSteps : now + d <= MaxLoopsTime
    /\ Tick

NextLoops ==
    \/ LoopsTick
    \/ SwitchLoop
    \/ HandleGiftEvent
    \/ ProcessQueue
    \/ SendAck
    \/ SendFloodWait
    \/ SendUnreachable
    \/ SendError

SpecLoops == InitLoops /\ [][NextLoops]_vars

\* ----------------------------------------- TelegramGiftMonitor on its own
\* The monitor with a callback that records its calls.  source is the
\* branch of get_star_gifts that the installation reaches.
EngineFrame == << jobs, queue, processing, stats, sent_messages,
                  notification_history, enabled, gifts_db, bot_stats, pc,
                  job, wake_at, held, audit, flood_until, other, running,
                  stopping >>

InitMonitor ==
    /\ EngineInit
    /\ other = LoopOff
    /\ source \in Sources
    /\ MonitorInit

MonitorTick ==
    /\ \E d \in TickSteps : now + d <= MaxMonitorTime
    /\ Tick

\* Another process appends a line to the feed file.
AppendLine ==
    \E line \in FeedLines :
        /\ source = "file"
        /\ file_offset + Len(feed_unread) < MaxLines
        /\ feed_unread' = Append(feed_unread, line)
        /\ last' = Step("append", None, 0)
        /\ UNCHANGED << now, source, last_hash, known_gifts, file_offset,
                        mon_pc, mon_wake_at, gifts_data, diffed, delivered,
                        reported, monitoring_active, feed_file, returned,
                        baseline >>
        /\ UNCHANGED EngineFrame

\* get_star_gifts(hash_value): the possible outcomes, each with what the
\* call returns and where it leaves the feed file's read position.  A file
\* read that raises leaves the position where it was.
get_star_gifts(hash_value) ==
    IF source = "pyrogram"
    THEN { [data |-> d, unread |-> feed_unread, offset |-> file_offset] :
               d \in RemoteAnswers(hash_value) }
    ELSE { [data |-> NoData, unread |-> feed_unread,
            offset |-> file_offset],
           [data |-> read_file_feed(feed_unread, now), unread |-> << >>,
            offset |-> next_file_offset(file_offset, feed_unread)] }

\* start_monitoring up to its loop, given the outcome o of the initial
\* get_star_gifts call: the baseline.
StartMonitoringGiven(o) ==
    /\ mon_pc = "start"
    /\ monitoring_active' = TRUE
    /\ feed_unread' = o.unread
    /\ file_offset' = o.offset
    /\ mon_pc' = "loop"
    /\ mon_wake_at' = now
    /\ gifts_data' = o.data
    /\ diffed' = FALSE
    /\ delivered' = << >>
    /\ last_hash' = initial_gifts(MState(last_hash, known_gifts),
                                  o.data).last_hash
    /\ known_gifts' = initial_gifts(MState(last_hash, known_gifts),
                                    o.data).known
    /\ baseline' = { o.data.gifts[i].id : i \in 1..Len(o.data.gifts) }
    /\ last' = Step(IF o.data.ok THEN "start" ELSE "start_failed", None, 0)
    /\ UNCHANGED << now, source, reported, feed_file, returned >>
    /\ UNCHANGED EngineFrame

\* start_monitoring up to its loop: the initial fetch and the baseline.
StartMonitoring ==
    \E o \in get_star_gifts(0) : StartMonitoringGiven(o)

\* One iteration of the monitor loop, given the outcome o of its
\* get_star_gifts call: _check_for_new_gifts with its callback calls, then
\* the sleep of check_interval seconds.  The step is labelled poll_again
\* when get_star_gifts returned the very gift list that the cycle before it
\* ran the diff on.
CheckForNewGiftsGiven(o) ==
    LET R == check_for_new_gifts(MState(last_hash, known_gifts), o.data)
    IN  /\ mon_pc = "loop"
        /\ monitoring_active
        /\ now >= mon_wake_at
        /\ feed_unread' = o.unread
        /\ file_offset' = o.offset
        /\ gifts_data' = o.data
        /\ last_hash' = R.last_hash
        /\ known_gifts' = R.known
        /\ diffed' = R.diffed
        /\ delivered' = R.delivered
        /\ mon_wake_at' = now + CheckInterval
        /\ last' = Step(IF ~o.data.ok THEN "poll_failed"
                        ELSE IF diffed /\ o.data.gifts = gifts_data.gifts
                        THEN "poll_again"
                        ELSE "poll",
                        None, Len(R.delivered))
        /\ UNCHANGED << now, source, mon_pc, reported, monitoring_active,
                        feed_file, returned, baseline >>
        /\ UNCHANGED EngineFrame

CheckForNewGifts ==
    \E o \in get_star_gifts(last_hash) : CheckForNewGiftsGiven(o)

NextMonitor ==
    \/ MonitorTick
    \/ AppendLine
    \/ StartMonitoring
    \/ CheckForNewGifts

SpecMonitor == InitMonitor /\ [][NextMonitor]_vars

\* ------------------------------------------- the hourly frequency limit
\* create_notification called for one user at a time with a
\* LIMITED_AVAILABLE notification of a gift that passes both users' price
\* and only_limited checks, while the drain loop sends what is queued.  The
\* clock runs over the hour of the frequency window.
InitFrequency ==
    /\ EngineInit
    /\ other = LoopOff
    /\ source = "pyrogram"
    /\ MonitorInit

CreateNotification ==
    \E user_id \in Users :
        LET E == EState(jobs, queue, stats, notification_history)
            E1 == create_notification(E, << user_id >>, BacklogGift,
                                      LIMITED_AVAILABLE, NORMAL, now, {})
            created == Len(E1.jobs) - Len(jobs)
        IN  /\ Len(E1.jobs) <= MaxFreqJobs
            /\ jobs' = E1.jobs
            /\ queue' = E1.queue
            /\ stats' = E1.stats
            /\ notification_history' = E1.history
            /\ audit' = audit \o [i \in 1..created |-> AuditZero]
            /\ last' = Step("create", user_id, created)
            /\ UNCHANGED << now, processing, sent_messages, enabled,
                            gifts_db, bot_stats, pc, job, wake_at, held,
                            flood_until >>
            /\ UNCHANGED << other, MonitorVars, LoopFlags >>

\* The clock advances: by a long step, or to the end of the drain loop's
\* sleep while jobs are queued.
FrequencyTick ==
    \E d \in FreqTickSteps \cup {wake_at - now} :
        /\ d > 0
        /\ d \in FreqTickSteps \/ queue # << >>
        /\ now + d <= MaxFreqTime
        /\ now' = now + d
        /\ last' = Step("tick", None, d)
        /\ UNCHANGED << jobs, queue, processing, stats, sent_messages,
                        notification_history, enabled, gifts_db, bot_stats,
                        pc, job, wake_at, held, audit, flood_until >>
        /\ UNCHANGED << other, MonitorVars, LoopFlags >>

\* Every send is acknowledged.
NextFrequency ==
    \/ FrequencyTick
    \/ CreateNotification
    \/ ProcessQueue
    \/ SendAck

SpecFrequency == InitFrequency /\ [][NextFrequency]_vars

\* ------------------------------------------- a filter check that raises
\* handle_gift_event when a comparison of should_notify_user raises for the
\* user failing (a users row whose min_stars or max_stars is not a number).
\* The step is labelled event_raised, with the user, when the exception
\* reached handle_gift_event.
HandleGiftEventRaising ==
    \E gift_data \in Gifts, event_type \in EventTypes, failing \in Users :
        LET B == BState(jobs, queue, stats, notification_history, enabled,
                        gifts_db, bot_stats)
            B1 == handle_gift_event(B, gift_data, event_type, now,
                                    {failing})
            created == Len(B1.jobs) - Len(jobs)
            raised == B1.bot_stats.errors_occurred
                          # bot_stats.errors_occurred
        IN  /\ bot_stats.gifts_processed < MaxEvents
            /\ Len(B1.jobs) <= MaxJobs
            /\ jobs' = B1.jobs
            /\ queue' = B1.queue
            /\ stats' = B1.stats
            /\ notification_history' = B1.history
            /\ gifts_db' = B1.gifts_db
            /\ bot_stats' = B1.bot_stats
            /\ audit' = audit \o [i \in 1..created |-> AuditZero]
            /\ last' = IF raised
                       THEN Step("event_raised", gift_data.id, failing)
                       ELSE Step(IF event_type = "new" THEN "event"
                                 ELSE "event_updated", gift_data.id, created)
            /\ UNCHANGED << now, processing, sent_messages, enabled, pc,
                            job, wake_at, held, flood_until >>
            /\ UNCHANGED << other, MonitorVars, LoopFlags >>

NextFanout ==
    \/ Tick
    \/ HandleGiftEventRaising
    \/ ProcessQueue
    \/ SendAck
    \/ SendUnreachable

SpecFanout == Init /\ [][NextFanout]_vars

\* ------------------------------------------------------------ end to end
\* The callback calls of one poll cycle, each awaited before the next:
\* handle_gift_event on every entry of calls, in order.
RECURSIVE handle_all(_, _, _)
handle_all(B, calls, t) ==
    IF calls = << >> THEN B
    ELSE handle_all(handle_gift_event(B, Head(calls).gift,
                                      Head(calls).event_type, t, {}),
                    Tail(calls), t)

\* Ids the returned list reports as available (every record of the id is
\* limited and not sold out) that known_gifts does not hold.
NewAvailable(known, gifts) ==
    { gifts[i].id : i \in
        { k \in 1..Len(gifts) :
              /\ gifts[k].id \notin DOMAIN known
              /\ \A m \in 1..Len(gifts) :
                     gifts[m].id = gifts[k].id =>
                         gifts[m].limited /\ ~gifts[m].sold_out } }

InitPipeline ==
    /\ EngineInit
    /\ other = LoopOff
    /\ source \in Sources
    /\ MonitorInit

\* One iteration of the monitor loop with handle_gift_event as callback,
\* given the outcome o of its get_star_gifts call: neither the callback nor
\* the fan-out inside it suspends, so the cycle up to the loop's sleep is
\* one step.  The feed is polled up to PollHorizon.
PollAndFanOutGiven(o) ==
    LET R == check_for_new_gifts(MState(last_hash, known_gifts), o.data)
        B == BState(jobs, queue, stats, notification_history, enabled,
                    gifts_db, bot_stats)
        B1 == handle_all(B, R.delivered, now)
        created == Len(B1.jobs) - Len(jobs)
    IN  /\ mon_pc = "loop"
        /\ monitoring_active
        /\ now >= mon_wake_at
        /\ now <= PollHorizon
        /\ feed_unread' = o.unread
        /\ file_offset' = o.offset
        /\ gifts_data' = o.data
        /\ last_hash' = R.last_hash
        /\ known_gifts' = R.known
        /\ diffed' = R.diffed
        /\ delivered' = R.delivered
        /\ mon_wake_at' = now + CheckInterval
        /\ reported' = reported \cup
               (IF o.data.ok THEN NewAvailable(known_gifts, o.data.gifts)
                ELSE {})
        /\ jobs' = B1.jobs
        /\ queue' = B1.queue
        /\ stats' = B1.stats
        /\ notification_history' = B1.history
        /\ gifts_db' = B1.gifts_db
        /\ bot_stats' = B1.bot_stats
        /\ audit' = audit \o [i \in 1..created |-> AuditZero]
        /\ last' = Step(IF ~o.data.ok THEN "poll_failed"
                        ELSE IF diffed /\ o.data.gifts = gifts_data.gifts
                        THEN "poll_again"
                        ELSE "poll",
                        None, Len(R.delivered))
        /\ UNCHANGED << now, source, mon_pc, processing, sent_messages,
                        enabled, pc, job, wake_at, held, flood_until,
                        other, LoopFlags, feed_file, returned,
                        baseline >>

PollAndFanOut ==
    \E o \in get_star_gifts(last_hash) : PollAndFanOutGiven(o)

\* The clock advances while the drain loop sleeps: the loop runs as soon as
\* its sleep ends and the send primitive answers at once.
PipelineTick ==
    \E d \in TickSteps :
        /\ pc = "idle"
        /\ now < wake_at
        /\ now + d <= MaxPipeTime
        /\ now' = now + d
        /\ last' = Step("tick", None, d)
        /\ UNCHANGED << jobs, queue, processing, stats, sent_messages,
                        notification_history, enabled, gifts_db, bot_stats,
                        pc, job, wake_at, held, audit, flood_until >>
        /\ UNCHANGED << other, MonitorVars, LoopFlags >>

PipelineAppend ==
    /\ file_offset + Len(feed_unread) < MaxPipeLines
    /\ AppendLine

NextPipeline ==
    \/ PipelineTick
    \/ PipelineAppend
    \/ StartMonitoring
    \/ PollAndFanOut
    \/ ProcessQueue
    \/ SendAck

SpecPipeline == InitPipeline /\ [][NextPipeline]_vars

\* The event loop keeps running both loops and the clock keeps going.
SpecPipelineFair ==
    /\ SpecPipeline
    /\ WF_vars(PipelineTick)
    /\ WF_vars(ProcessQueue)
    /\ WF_vars(SendAck)

\* ------------------------------------------------------- the feed file
\* _read_file_feed called again and again while another process appends
\* lines.  feed_file is the whole file; the position is counted in lines.
FeedAppend ==
    \E line \in FeedLines :
        /\ Len(feed_file) < MaxFeedFile
        /\ feed_file' = Append(feed_file, line)
        /\ returned' = Append(returned, 0)
        /\ last' = Step("append", None, 0)
        /\ UNCHANGED << now, source, last_hash, known_gifts, feed_unread,
                        file_offset, mon_pc, mon_wake_at, gifts_data,
                        diffed, delivered, reported, monitoring_active,
                        baseline >>
        /\ UNCHANGED EngineFrame

\* One call of _read_file_feed: either something raises before f.tell()
\* and None is returned, or the lines from _file_offset on are read,
\* _file_offset moves, and the gifts of the lines that parse are returned
\* (None when there are none).
ReadFileFeed ==
    \E raised \in BOOLEAN :
        LET lines == SubSeq(feed_file, file_offset + 1, Len(feed_file))
            data == read_file_feed(lines, now)
        IN  /\ source = "file"
            /\ IF raised
               THEN /\ gifts_data' = NoData
                    /\ last' = Step("read_failed", None, 0)
                    /\ UNCHANGED << file_offset, returned >>
               ELSE /\ gifts_data' = data
                    /\ file_offset' = next_file_offset(file_offset, lines)
                    /\ returned' =
                           [ i \in 1..Len(feed_file) |->
                               IF /\ i > file_offset
                                  /\ data.ok
                                  /\ feed_file[i].json_ok
                               THEN returned[i] + 1 ELSE returned[i] ]
                    /\ last' = Step("read", None, Len(data.gifts))
            /\ UNCHANGED << now, source, last_hash, known_gifts,
                            feed_unread, mon_pc, mon_wake_at, diffed,
                            delivered, reported, monitoring_active,
                            feed_file, baseline >>
            /\ UNCHANGED EngineFrame

InitFeed ==
    /\ EngineInit
    /\ other = LoopOff
    /\ source = "file"
    /\ MonitorInit

NextFeed ==
    \/ FeedAppend
    \/ ReadFileFeed

SpecFeed == InitFeed /\ [][NextFeed]_vars

\* ------------------------------------------------------------- shutdown
\* start_services has created the tasks of start_processing and
\* start_monitoring; neither has run yet.  The catalog is polled through
\* the raw API.
InitShutdown ==
    /\ now = 0
    /\ jobs = << >>
    /\ queue = << >>
    /\ processing = FALSE
    /\ stats = [total_queued |-> 0, total_sent |-> 0, total_failed |-> 0]
    /\ sent_messages = << >>
    /\ notification_history = [u \in Users |-> << >>]
    /\ enabled = [u \in Users |-> TRUE]
    /\ gifts_db = << >>
    /\ bot_stats = [gifts_processed |-> 0, notifications_sent |-> 0,
                    errors_occurred |-> 0]
    /\ pc = "created"
    /\ job = None
    /\ wake_at = 0
    /\ held = {}
    /\ audit = << >>
    /\ flood_until = 0
    /\ last = Step("init", None, 0)
    /\ running = FALSE
    /\ stopping = FALSE
    /\ other = LoopOff
    /\ source = "pyrogram"
    /\ MonitorInit

\* The first step of the start_processing task: up to the loop's test.
StartProcessing ==
    /\ pc = "created"
    /\ IF running
       THEN pc' = "exited" /\ UNCHANGED running
       ELSE pc' = "idle" /\ running' = TRUE
    /\ last' = Step("start_processing", None, 0)
    /\ UNCHANGED << now, jobs, queue, processing, stats, sent_messages,
                    notification_history, enabled, gifts_db, bot_stats,
                    job, wake_at, held, audit, flood_until, other,
                    monitoring_active, stopping >>
    /\ UNCHANGED MonitorVars

\* while self.running: the test fails after the sleep and the task ends.
DrainExit ==
    /\ pc = "idle"
    /\ now >= wake_at
    /\ ~running
    /\ pc' = "exited"
    /\ last' = Step("drain_exit", None, 0)
    /\ UNCHANGED << now, jobs, queue, processing, stats, sent_messages,
                    notification_history, enabled, gifts_db, bot_stats,
                    job, wake_at, held, audit, flood_until, other >>
    /\ UNCHANGED << MonitorVars, LoopFlags >>

\* while self.monitoring_active: the test fails and the task ends.
MonitorExit ==
    /\ mon_pc = "loop"
    /\ now >= mon_wake_at
    /\ ~monitoring_active
    /\ mon_pc' = "exited"
    /\ last' = Step("monitor_exit", None, 0)
    /\ UNCHANGED << now, source, last_hash, known_gifts, feed_unread,
                    file_offset, mon_wake_at, gifts_data, diffed, delivered,
                    reported, monitoring_active, feed_file, returned,
                    baseline >>
    /\ UNCHANGED EngineFrame

\* AdvancedGiftBot.shutdown: stop_monitoring and stop_processing, called
\* from the signal handler's task or from start_services' except clause.
Shutdown ==
    /\ ~stopping
    /\ now <= StopHorizon
    /\ stopping' = TRUE
    /\ monitoring_active' = FALSE
    /\ running' = FALSE
    /\ last' = Step("shutdown", None, 0)
    /\ UNCHANGED << now, jobs, queue, processing, stats, sent_messages,
                    notification_history, enabled, gifts_db, bot_stats, pc,
                    job, wake_at, held, audit, flood_until, other >>
    /\ UNCHANGED MonitorVars

\* The clock advances while no task is ready to run and no send is awaited.
ShutdownTick ==
    \E d \in TickSteps :
        /\ pc \in {"idle", "exited"}
        /\ pc = "idle" => now < wake_at
        /\ mon_pc \in {"loop", "exited"}
        /\ mon_pc = "loop" => now < mon_wake_at
        /\ now + d <= MaxStopTime
        /\ now' = now + d
        /\ last' = Step("tick", None, d)
        /\ UNCHANGED << jobs, queue, processing, stats, sent_messages,
                        notification_history, enabled, gifts_db, bot_stats,
                        pc, job, wake_at, held, audit, flood_until >>
        /\ UNCHANGED << other, MonitorVars, LoopFlags >>

\* The send primitive answers.
SendAnswer ==
    \/ SendAck
    \/ SendError

NextShutdown ==
    \/ ShutdownTick
    \/ Shutdown
    \/ StartProcessing
    \/ ProcessQueue
    \/ SendAnswer
    \/ DrainExit
    \/ StartMonitoring
    \/ PollAndFanOut
    \/ MonitorExit

SpecShutdown == InitShutdown /\ [][NextShutdown]_vars

\* The event loop runs every task that is ready, the send primitive
\* answers and the clock keeps going.
SpecShutdownFair ==
    /\ SpecShutdown
    /\ WF_vars(ShutdownTick)
    /\ WF_vars(StartProcessing)
    /\ WF_vars(ProcessQueue)
    /\ WF_vars(SendAnswer)
    /\ WF_vars(DrainExit)
    /\ WF_vars(StartMonitoring)
    /\ WF_vars(PollAndFanOut)
    /\ WF_vars(MonitorExit)

\* ------------------------------------------- the diff on one known gift
\* The monitor on a catalog of one gift whose record varies in every field
\* from answer to answer: start_monitoring stores the first record, each
\* poll diffs another one against what is stored.
TrackedRecords ==
    { [id |-> 1, stars |-> s, limited |-> l, sold_out |-> o,
       availability_remains |-> a] :
          s \in {0, 100}, l \in BOOLEAN, o \in BOOLEAN, a \in {None, 10} }

\* A catalog answer holding the record r under the token h.
TrackedAnswer(h, r) ==
    [data |-> [ok |-> TRUE, hash |-> h, gifts |-> << r >>],
     unread |-> feed_unread, offset |-> file_offset]

TrackedStart ==
    \E h \in RemoteHashes, r \in TrackedRecords :
        StartMonitoringGiven(TrackedAnswer(h, r))

TrackedPoll ==
    \E h \in RemoteHashes \ {last_hash}, r \in TrackedRecords :
        CheckForNewGiftsGiven(TrackedAnswer(h, r))

NextTracked ==
    \/ MonitorTick
    \/ TrackedStart
    \/ TrackedPoll

SpecTracked == Init /\ [][NextTracked]_vars

\* ---------------------------------------------- the gate before the callback
\* The monitor with handle_gift_event as callback and the drain loop, on a
\* catalog whose polls return one record of gift 1 in any combination of
\* its fields (free, unlimited and sold-out records among them) after a
\* first fetch that failed or stored a listing.
GatePoll ==
    \E h \in RemoteHashes \ {last_hash}, r \in TrackedRecords :
        PollAndFanOutGiven(TrackedAnswer(h, r))

NextGate ==
    \/ PipelineTick
    \/ StartMonitoring
    \/ GatePoll
    \/ ProcessQueue
    \/ SendAck

SpecGate == Init /\ [][NextGate]_vars

\* ------------------------------------------------- draining a backlog
\* The engine after the fan-out has stopped: MaxDrainJobs jobs of one 'new'
\* event are queued at time 0 and no job is made any more.  The send
\* primitive answers every send in one of its four ways.
DrainJobs == SubSeq(BacklogJobs, 1, MaxDrainJobs)

InitDrain ==
    /\ now = 0
    /\ jobs = DrainJobs
    /\ queue = [ i \in 1..Len(DrainJobs) |-> i ]
    /\ stats = [total_queued |-> Len(DrainJobs), total_sent |-> 0,
                total_failed |-> 0]
    /\ notification_history = [u \in Users |-> << >>]
    /\ processing = FALSE
    /\ sent_messages = << >>
    /\ enabled = [u \in Users |-> TRUE]
    /\ gifts_db = add_gift(<< >>, BacklogGift)
    /\ bot_stats = [gifts_processed |-> 1,
                    notifications_sent |-> Len(DrainJobs),
                    errors_occurred |-> 0]
    /\ pc = "idle"
    /\ job = None
    /\ wake_at = 0
    /\ held = {}
    /\ audit = [ i \in 1..Len(DrainJobs) |-> AuditZero ]
    /\ flood_until = 0
    /\ last = Step("init", None, 0)
    /\ running = TRUE
    /\ stopping = FALSE
    /\ other = LoopOff
    /\ source = "pyrogram"
    /\ MonitorInit

\* Moments from which get_next_job can return a queued job.
DueTimes ==
    { jobs[queue[i]].scheduled_at : i \in
        { k \in 1..Len(queue) :
              jobs[queue[k]].attempts < jobs[queue[k]].max_attempts } }

\* The clock advances while the drain loop sleeps, to the first iteration
\* that finds a job: the end of the sleep, or the moment the first queued
\* job falls due (the iterations in between find no job and change
\* nothing).
DrainTick ==
    \E due \in DueTimes :
        LET d == Max(wake_at, due) - now
        IN  /\ \A x \in DueTimes : due <= x
            /\ pc = "idle"
            /\ now < wake_at
            /\ now + d <= MaxDrainTime
            /\ now' = now + d
            /\ last' = Step("tick", None, d)
            /\ UNCHANGED << jobs, queue, processing, stats, sent_messages,
                            notification_history, enabled, gifts_db,
                            bot_stats, pc, job, wake_at, held, audit,
                            flood_until >>
            /\ UNCHANGED << other, MonitorVars, LoopFlags >>

\* client.send_message returns or raises.
SendReturns ==
    \/ SendAck
    \/ SendFloodWait
    \/ SendUnreachable
    \/ SendError

NextDrain ==
    \/ DrainTick
    \/ ProcessQueue
    \/ SendReturns

SpecDrain == InitDrain /\ [][NextDrain]_vars

\* The drain loop keeps running, every send returns and the clock goes on.
SpecDrainFair ==
    /\ SpecDrain
    /\ WF_vars(DrainTick)
    /\ WF_vars(ProcessQueue)
    /\ WF_vars(SendReturns)

\* ------------------------------------------- start and stop of the engine
\* The engine with its drain loop running, and a caller that calls
\* stop_processing and start_processing in any order at any moment.  Each
\* start_processing call is a task of its own; other holds the task the
\* event loop is not running.
CallStartProcessing ==
    /\ other.pc \in {"off", "exited"}
    /\ other' = [pc |-> "created", job |-> None, wake_at |-> 0]
    /\ last' = Step("call_start", None, 0)
    /\ UNCHANGED << now, jobs, queue, processing, stats, sent_messages,
                    notification_history, enabled, gifts_db, bot_stats, pc,
                    job, wake_at, held, audit, flood_until >>
    /\ UNCHANGED << MonitorVars, LoopFlags >>

\* stop_processing
StopProcessing ==
    /\ running' = FALSE
    /\ last' = Step("stop_processing", None, 0)
    /\ UNCHANGED << now, jobs, queue, processing, stats, sent_messages,
                    notification_history, enabled, gifts_db, bot_stats, pc,
                    job, wake_at, held, audit, flood_until, other,
                    monitoring_active, stopping >>
    /\ UNCHANGED MonitorVars

NextStartStop ==
    \/ LoopsTick
    \/ SwitchLoop
    \/ CallStartProcessing
    \/ StartProcessing
    \/ StopProcessing
    \/ DrainExit
    \/ HandleGiftEvent
    \/ ProcessQueue
    \/ SendAck

SpecStartStop == Init /\ [][NextStartStop]_vars

\* ------------------------------------------------------------ properties
QueuedJobs == { queue[i] : i \in 1..Len(queue) }

EligibleQueued == { j \in QueuedJobs : Eligible(jobs[j], now) }

\* C1: get_next_job returns an eligible job of the highest priority among
\* the eligible queued jobs; when an eligible job is queued it returns one,
\* whatever not-due or exhausted jobs of higher priority are queued, and it
\* returns nothing only when no queued job is eligible.
C1_HighestEligibleFirst ==
    [][ last'.op = "get_next_job" =>
          IF EligibleQueued = {}
          THEN last'.job = None
          ELSE /\ last'.job \in EligibleQueued
               /\ \A k \in EligibleQueued :
                      jobs[k].priority <= jobs[last'.job].priority ]_vars

\* A lower-priority job has just been returned while a higher-priority job
\* that is not yet due or has exhausted its attempts stays queued.
C1_Witness ==
    /\ last.op = "get_next_job"
    /\ last.job # None
    /\ \E k \in QueuedJobs :
           /\ jobs[k].priority > jobs[last.job].priority
           /\ ~Eligible(jobs[k], now)

\* C2: among eligible queued jobs of equal priority the drain loop takes
\* the one created first: no eligible job of the same priority and an
\* earlier created_at is queued when a job is taken.
C2_FifoWithinPriority ==
    [][ last'.op = "take" =>
          \A k \in EligibleQueued :
              jobs[k].priority = jobs[last'.job].priority
                  => jobs[k].created_at >= jobs[last'.job].created_at ]_vars

\* C3: a job whose delivery failed max_attempts (3) times is not held by the
\* drain loop, cannot be returned by get_next_job, and has been counted in
\* total_failed exactly once.
C3_RetryExhaustion ==
    \A j \in 1..Len(jobs) :
        audit[j].fails >= jobs[j].max_attempts =>
            /\ audit[j].counted = 1
            /\ job # j
            /\ j \in QueuedJobs => jobs[j].attempts >= jobs[j].max_attempts

\* C4: every job in the queue list has attempts < max_attempts.
C4_QueuedBelowMaxAttempts ==
    \A j \in QueuedJobs : jobs[j].attempts < jobs[j].max_attempts

\* C5: a job occurs at most once in the queue list, and the job being sent
\* does not occur in it.
C5_SingleOwner ==
    /\ \A a, b \in 1..Len(queue) : queue[a] = queue[b] => a = b
    /\ job # None => job \notin QueuedJobs

\* C6: a successful send adds exactly 1 to total_sent, leaves the job out of
\* the queue, and is the first successful send of that job.
C6_DeliveredAtMostOnce ==
    [][ last'.op = "ack" =>
          /\ stats'.total_sent = stats.total_sent + 1
          /\ last'.job \notin { queue'[i] : i \in 1..Len(queue') }
          /\ audit[last'.job].acks = 0 ]_vars

\* C7: a job for which the send primitive reported the recipient unreachable
\* is neither in the queue nor sent again.
C7_UnreachableDiscarded ==
    \A j \in 1..Len(jobs) :
        audit[j].unreachable => j \notin QueuedJobs /\ job # j

\* Users for one of whose jobs the send primitive reported unreachable.
UnreachableUsers ==
    { jobs[j].user_id : j \in { i \in 1..Len(jobs) : audit[i].unreachable } }

C9_FloodWaitReschedulesOnce ==
    [][ last'.op = "flood" =>
          /\ jobs'[last'.job].attempts = jobs[last'.job].attempts + 1
          /\ jobs'[last'.job].scheduled_at = now + last'.n ]_vars

\* C10: no job is taken for sending before the end of every mandatory wait
\* reported so far.
C10_GlobalCooldown ==
    [][ last'.op = "take" => now >= flood_until ]_vars

\* Number of slots of the list s that hold x.
Occurrences(s, x) == Cardinality({ i \in 1..Len(s) : s[i] = x })

\* C11: a send that fails with an error that is neither a flood wait nor an
\* unreachable recipient adds exactly 1 to the job's attempts; when attempts
\* is then below max_attempts the job is inserted into the queue once more
\* with scheduled_at = now + 60 and total_failed stays, otherwise the queue
\* is left as it is and total_failed grows by 1.
C11_GenericErrorRequeue ==
    [][ last'.op = "error" =>
          LET j == last'.job
          IN  /\ jobs'[j].attempts = jobs[j].attempts + 1
              /\ IF jobs'[j].attempts < jobs'[j].max_attempts
                 THEN /\ Occurrences(queue', j) = Occurrences(queue, j) + 1
                      /\ jobs'[j].scheduled_at = now + 60
                      /\ stats'.total_failed = stats.total_failed
                 ELSE /\ queue' = queue
                      /\ stats'.total_failed = stats.total_failed + 1 ]_vars

\* A generic error has just exhausted a job that an earlier failure had put
\* back into the queue.
C11_Witness ==
    /\ last.op = "error"
    /\ audit[last.job].fails >= 2
    /\ jobs[last.job].attempts >= jobs[last.job].max_attempts
    /\ stats.total_failed >= 1

\* Every send so far, as _record_notification logged it: (user, index).
SendLog(h) ==
    UNION { { << u, i >> : i \in 1..Len(h[u]) } : u \in DOMAIN h }

\* Number of logged sends whose age at time t is below w.
SendsYoungerThan(h, t, w) ==
    Cardinality({ e \in SendLog(h) : t - h[e[1]][e[2]].timestamp < w })

\* A _process_queue call has just returned or reached the send.
DispatcherStep(l) == l.op \in {"busy", "none", "take"}

\* C12: a 60-second window counted up to and including its oldest second
\* never holds more than messages_per_minute sends, and while the window
\* holds that many send timestamps none of which is more than 60 seconds
\* old, a dispatcher step takes no job and leaves queue, jobs and counters
\* as they are.
C12_RateLimitWindow ==
    [][ /\ last'.op = "ack" =>
              SendsYoungerThan(notification_history', now',
                               RateWindowSecs + 1) <= MessagesPerMinute
        /\ ( /\ DispatcherStep(last')
             /\ Len(SelectSeq(sent_messages,
                        LAMBDA m : now - m <= RateWindowSecs))
                    >= MessagesPerMinute )
              => /\ last'.op # "take"
                 /\ queue' = queue
                 /\ jobs' = jobs
                 /\ stats' = stats ]_vars

\* C12 as the code has it: a timestamp leaves the window once it is 60
\* seconds old.  A window that excludes its oldest second never holds more
\* than messages_per_minute sends, and while the window holds that many
\* timestamps younger than 60 seconds a dispatcher step takes no job and
\* leaves queue, jobs and counters as they are.
C12_RateLimitHalfOpen ==
    [][ /\ last'.op = "ack" =>
              SendsYoungerThan(notification_history', now',
                               RateWindowSecs) <= MessagesPerMinute
        /\ ( /\ DispatcherStep(last')
             /\ Len(SelectSeq(sent_messages,
                        LAMBDA m : now - m < RateWindowSecs))
                    >= MessagesPerMinute )
              => /\ last'.op # "take"
                 /\ queue' = queue
                 /\ jobs' = jobs
                 /\ stats' = stats ]_vars

\* The dispatcher has just returned without a job although an eligible job
\* is queued, because the window holds messages_per_minute timestamps.
C12_Witness ==
    /\ last.op = "none"
    /\ EligibleQueued # {}
    /\ Len(sent_messages) >= MessagesPerMinute

\* Number of drain loops suspended in the await of the send primitive.
InFlight ==
    (IF pc = "send" THEN 1 ELSE 0) + (IF other.pc = "send" THEN 1 ELSE 0)

\* C13: with two drain loops, at most one send is awaited at any time; a
\* _process_queue call made while the other loop awaits its send takes no
\* job and leaves the queue alone; and the processing flag is set exactly
\* while a send is awaited, so it is false again after every step that set
\* it, whatever the send primitive answered or raised.
C13_SingleSendInFlight ==
    [][ /\ InFlight' <= 1
        /\ processing' = (InFlight' = 1)
        /\ (DispatcherStep(last') /\ other.pc = "send")
              => /\ last'.op = "busy"
                 /\ job' = None
                 /\ queue' = queue
                 /\ jobs' = jobs ]_vars

\* A _process_queue call has just returned without a job while the other
\* loop awaits its send and an eligible job is queued.
C13_Witness ==
    /\ last.op = "busy"
    /\ other.pc = "send"
    /\ EligibleQueued # {}

\* get_star_gifts has just returned a token and a gift list to
\* _check_for_new_gifts.
IsPoll(l) == l.op \in {"poll", "poll_again"}

\* Callback calls of the latest poll cycle for gift id with event type ty.
Events(calls, id, ty) ==
    { k \in 1..Len(calls) :
          calls[k].gift.id = id /\ calls[k].event_type = ty }

\* Positions of the snapshot s that hold a record of gift id.
PositionsOf(s, id) == { i \in 1..Len(s) : s[i].id = id }

\* C14: when a poll returns a snapshot holding an id that is not in
\* known_gifts, the cycle makes exactly one 'new' callback call for that id
\* and known_gifts holds the id afterwards.
C14_NewGiftEvent ==
    [][ IsPoll(last') =>
          \A i \in 1..Len(gifts_data'.gifts) :
              LET id == gifts_data'.gifts[i].id
              IN  id \notin DOMAIN known_gifts =>
                      /\ Cardinality(Events(delivered', id, "new")) = 1
                      /\ id \in DOMAIN known_gifts' ]_vars

\* C15: when the snapshot's one record of a known gift differs from the
\* stored record in sold_out only, in either direction, the cycle makes
\* exactly one 'updated' callback call for that gift.
C15_SoldOutFlip ==
    [][ IsPoll(last') =>
          \A i \in 1..Len(gifts_data'.gifts) :
              LET g == gifts_data'.gifts[i]
              IN  ( /\ g.id \in DOMAIN known_gifts
                    /\ PositionsOf(gifts_data'.gifts, g.id) = {i}
                    /\ g.sold_out # known_gifts[g.id].sold_out
                    /\ g = [known_gifts[g.id] EXCEPT
                                !.sold_out = g.sold_out] )
                  => Cardinality(Events(delivered', g.id, "updated")) = 1
        ]_vars

\* C16: when a poll returns the gift list that the cycle before it ran the
\* diff on, whatever that list is, the cycle makes no callback call and
\* leaves known_gifts as it is.
C16_DiffIdempotent ==
    [][ last'.op = "poll_again" =>
          /\ delivered' = << >>
          /\ known_gifts' = known_gifts ]_vars

\* No two records of the list share an id and differ in a tracked field.
ConsistentIds(gifts) ==
    \A i, k \in 1..Len(gifts) :
        gifts[i].id = gifts[k].id => ~gift_changed(gifts[i], gifts[k])

\* C16 for gift lists whose records of one id agree on the tracked fields:
\* when a poll returns such a list and the cycle before it ran the diff on
\* the same list, the cycle makes no callback call and leaves known_gifts
\* as it is.
C16_DiffIdempotentConsistent ==
    [][ (last'.op = "poll_again" /\ ConsistentIds(gifts_data'.gifts)) =>
          /\ delivered' = << >>
          /\ known_gifts' = known_gifts ]_vars

\* The diff has just run a second time on a list that holds a gift the
\* callback accepts, and called nothing.
C16_Witness ==
    /\ last.op = "poll_again"
    /\ diffed
    /\ ConsistentIds(gifts_data.gifts)
    /\ \E i \in 1..Len(gifts_data.gifts) : should_notify(gifts_data.gifts[i])
    /\ delivered = << >>

\* C17: when a poll returns a token equal to last_hash the diff is skipped:
\* no callback call, known_gifts and last_hash as they were, whatever the
\* returned gift list holds.
C17_EqualTokenSkipsDiff ==
    [][ (IsPoll(last') /\ gifts_data'.hash = last_hash) =>
          /\ ~diffed'
          /\ delivered' = << >>
          /\ known_gifts' = known_gifts
          /\ last_hash' = last_hash ]_vars

\* A poll has just been skipped although the returned list holds a gift
\* that is not in known_gifts and that the callback accepts.
C17_Witness ==
    /\ IsPoll(last)
    /\ gifts_data.hash = last_hash
    /\ ~diffed
    /\ \E i \in 1..Len(gifts_data.gifts) :
           /\ gifts_data.gifts[i].id \notin DOMAIN known_gifts
           /\ should_notify(gifts_data.gifts[i])

\* C18: a poll whose get_star_gifts call returns None (the source raised or
\* had nothing) makes no callback call and leaves known_gifts and last_hash
\* as they were.
C18_FailedPollChangesNothing ==
    [][ last'.op \in {"poll_failed", "start_failed"} =>
          /\ delivered' = << >>
          /\ known_gifts' = known_gifts
          /\ last_hash' = last_hash ]_vars

\* A poll has just failed on a monitor that knows gifts and holds a token.
C18_Witness ==
    /\ last.op = "poll_failed"
    /\ DOMAIN known_gifts # {}
    /\ last_hash # 0

\* C19: the callback calls of one poll cycle are in the order in which the
\* snapshot lists their gifts, whatever their event types.
C19_SnapshotOrder ==
    [][ IsPoll(last') =>
          \A a, b \in 1..Len(delivered') :
              a < b => delivered'[a].pos < delivered'[b].pos ]_vars

\* The gift of the fan-out step labelled l.
EventGift(l) == CHOOSE g \in Gifts : g.id = l.job

\* The checks of should_notify_user other than the price range, for the
\* subscriber u (who must be among the enabled users handed to the fan-out)
\* and a gift g announced as a new gift at time t.
OtherChecksPass(u, g, h, t) ==
    /\ enabled[u]
    /\ UserRows[u].only_limited => g.limited
    /\ CountType(PruneHistory(h[u], t, HistoryWindowSecs), NEW_GIFT)
           < FrequencyLimit(NEW_GIFT)

\* C20: in a fan-out step, a gift priced below a subscriber's min_stars or
\* above the max_stars produces no job for that subscriber, and a gift
\* priced inside the range produces exactly one job, which is in the queue,
\* when the subscriber passes the other filter checks.
C20_PriceRangeFilter ==
    [][ last'.op \in {"event", "event_updated"} =>
          \A u \in DOMAIN UserRows :
              LET g == EventGift(last')
                  f == UserRows[u]
                  created == { k \in (Len(jobs) + 1)..Len(jobs') :
                                  jobs'[k].user_id = u }
              IN  /\ (g.stars < f.min_stars \/ g.stars > f.max_stars)
                        => created = {}
                  /\ ( /\ f.min_stars <= g.stars
                       /\ g.stars <= f.max_stars
                       /\ OtherChecksPass(u, g, notification_history, now) )
                        => /\ Cardinality(created) = 1
                           /\ \A k \in created :
                                  Occurrences(queue', k) = 1 ]_vars

\* Jobs created for user u with notification type ty less than an hour
\* before time t.
AcceptedWithinHour(u, ty, t) ==
    { k \in 1..Len(jobs) :
          /\ jobs[k].user_id = u
          /\ jobs[k].notification_type = ty
          /\ t - jobs[k].created_at < HistoryWindowSecs }

\* C21: when three LIMITED_AVAILABLE notifications for a user have been
\* accepted (a job was queued for each) within the last 60 minutes, a
\* further create_notification call for that user queues no job, whether
\* the three jobs are queued, being sent, sent or failed.
C21_FrequencyCapOnAccept ==
    [][ last'.op = "create" =>
          ( Cardinality(AcceptedWithinHour(last'.job, LIMITED_AVAILABLE,
                                           now)) >= 3
              => last'.n = 0 ) ]_vars

\* Entries of the user's history of type ty that are less than an hour old.
DeliveredWithinHour(u, ty) ==
    { i \in 1..Len(notification_history[u]) :
          /\ notification_history[u][i].type = ty
          /\ now - notification_history[u][i].timestamp
                 < HistoryWindowSecs }

\* C22: at any time, the notifications of one type delivered to one user
\* within the last 60 minutes number at most the type's hourly limit.
C22_DeliveryCap ==
    \A u \in Users :
        \A ty \in {NEW_GIFT, GIFT_UPDATE, PRICE_DROP, LIMITED_AVAILABLE,
                   SYSTEM_ALERT, PROMOTION} :
            Cardinality(DeliveredWithinHour(u, ty)) <= FrequencyLimit(ty)

\* Jobs made for user u about gift id.
JobsFor(u, id) ==
    { k \in 1..Len(jobs) : jobs[k].user_id = u /\ jobs[k].message = id }

\* Exactly one job for user u about gift id exists, it was sent once and is
\* neither queued nor being sent, and total_sent counts one per sent job.
SentOnce(u, id) ==
    /\ Cardinality(JobsFor(u, id)) = 1
    /\ \A k \in JobsFor(u, id) :
           /\ audit[k].acks = 1
           /\ k \notin QueuedJobs
           /\ job # k
    /\ stats.total_sent =
           Cardinality({ k \in 1..Len(jobs) : audit[k].acks = 1 })

\* C23: once a poll has reported a gift that was not known, is limited and
\* not sold out and is priced within a subscriber's range, then (sends
\* being acknowledged and the rate budget free) eventually exactly one
\* message about it has been sent to that subscriber, its job is out of the
\* queue and total_sent has counted it once.
C23_EndToEnd ==
    \A u \in Users : \A g \in FeedGifts :
        ( /\ g.id \in reported
          /\ UserRows[u].min_stars <= g.stars
          /\ g.stars <= UserRows[u].max_stars )
            ~> SentOnce(u, g.id)

\* Jobs the step from the current state to the next made for user u.
CreatedFor(u) ==
    { k \in (Len(jobs) + 1)..Len(jobs') : jobs'[k].user_id = u }

\* C24: when the filter raises for one subscriber during the fan-out of a
\* new-gift event, every other enabled subscriber whom the filter accepts,
\* before or after the failing one in the list, gets exactly one job.
C24_FailureIsolated ==
    [][ last'.op = "event_raised" =>
          \A v \in Users \ {last'.n} :
              ( /\ enabled[v]
                /\ should_notify_user(notification_history, v,
                                      EventGift(last'), NEW_GIFT, now).ok )
                  => Cardinality(CreatedFor(v)) = 1 ]_vars

\* Ids whose record in known_gifts the step from the current state to the
\* next stored or replaced.
ChangedIds ==
    { id \in DOMAIN known_gifts' :
          id \notin DOMAIN known_gifts \/ known_gifts'[id] # known_gifts[id] }

\* C25: after every poll cycle, each gift the cycle stored as new or
\* changed in known_gifts has the same record in the gifts table.
C25_StoreMatchesKnownGifts ==
    [][ IsPoll(last') =>
          \A id \in ChangedIds :
              /\ id \in DOMAIN gifts_db'
              /\ gifts_db'[id] = known_gifts'[id] ]_vars

\* Every job is queued, being sent, delivered or counted as failed.
NoJobLost ==
    \A k \in 1..Len(jobs) :
        \/ k \in QueuedJobs
        \/ job = k
        \/ audit[k].acks >= 1
        \/ audit[k].counted >= 1

\* C26: after shutdown has been called, at whatever point of the two loop
\* tasks (also before a created task has run its first step), eventually
\* both tasks have ended, and no job is lost on the way.
C26_ShutdownEndsLoops ==
    /\ stopping ~> (pc = "exited" /\ mon_pc = "exited")
    /\ [](stopping => NoJobLost)

\* C27: over any sequence of reads of the feed file and appends to it, no
\* line is returned by more than one read, and a read that moves the
\* position starts where the read before it ended and stops at the end of
\* the file.
C27_FeedIncremental ==
    [][ /\ \A i \in 1..Len(returned') : returned'[i] <= 1
        /\ last'.op = "read" =>
              /\ file_offset' = Len(feed_file)
              /\ \A i \in 1..Len(feed_file) :
                     returned'[i] # returned[i] => i > file_offset ]_vars

\* A read has just returned lines appended after an earlier read had
\* returned the lines before them.
C27_Witness ==
    /\ last.op = "read"
    /\ last.n >= 1
    /\ Len(feed_file) >= 2
    /\ \A i \in 1..Len(feed_file) : returned[i] = 1
    /\ file_offset = Len(feed_file)
    /\ gifts_data.ok /\ Len(gifts_data.gifts) < Len(feed_file)

\* Ids of the records in the gift list.
IdsOf(gifts) == { gifts[i].id : i \in 1..Len(gifts) }

\* C28: the set of ids in known_gifts never shrinks, and a poll whose
\* snapshot lacks a known gift makes no callback call for that gift and
\* leaves its record in known_gifts as it is.
C28_KnownGiftsNeverShrink ==
    [][ /\ DOMAIN known_gifts \subseteq DOMAIN known_gifts'
        /\ IsPoll(last') =>
              \A id \in DOMAIN known_gifts \ IdsOf(gifts_data'.gifts) :
                  /\ known_gifts'[id] = known_gifts[id]
                  /\ Events(delivered', id, "new") = {}
                  /\ Events(delivered', id, "updated") = {} ]_vars

\* The diff has just run on a snapshot that lacks a known gift and holds
\* another gift, for which the callback was called.
C28_Witness ==
    /\ last.op = "poll"
    /\ diffed
    /\ delivered # << >>
    /\ DOMAIN known_gifts \ IdsOf(gifts_data.gifts) # {}

\* The callback call of the cycle that made job k of the next state.
CallOf(k) ==
    CHOOSE c \in 1..Len(delivered') :
        /\ delivered'[c].event_type = "new"
        /\ delivered'[c].gift.id = jobs'[k].message

\* C29: jobs are made only within a poll cycle's callback calls; the step
\* that makes them makes, for every 'new' call of the cycle, one job for
\* each enabled subscriber whom the filter accepts, with the jobs of an
\* earlier call before those of a later call; the drain loop does not move
\* in that step and no queued job leaves the queue; and the next poll cycle
\* cannot begin before the monitor's sleep has passed.
C29_FanOutAtomic ==
    [][ /\ Len(jobs') > Len(jobs) =>
              /\ IsPoll(last')
              /\ pc' = pc /\ job' = job /\ processing' = processing
              /\ sent_messages' = sent_messages
              /\ stats'.total_sent = stats.total_sent
              /\ \A k \in QueuedJobs : Occurrences(queue', k) = 1
              /\ \A a, b \in (Len(jobs) + 1)..Len(jobs') :
                     a < b => CallOf(a) <= CallOf(b)
        /\ IsPoll(last') =>
              /\ mon_wake_at' > now'
              /\ \A c \in 1..Len(delivered') : \A u \in Users :
                     ( /\ delivered'[c].event_type = "new"
                       /\ enabled[u]
                       /\ should_notify_user(notification_history, u,
                              delivered'[c].gift, NEW_GIFT, now).ok )
                       => /\ Cardinality({ k \in CreatedFor(u) :
                                 jobs'[k].message = delivered'[c].gift.id })
                                 = 1
                          /\ \A k \in CreatedFor(u) :
                                 Occurrences(queue', k) = 1 ]_vars

\* A poll cycle has just made the jobs of two events for both subscribers
\* and they are queued event by event.
C29_Witness ==
    /\ IsPoll(last)
    /\ Len(delivered) = 2
    /\ Len(jobs) = 4
    /\ queue = << 1, 2, 3, 4 >>
    /\ jobs[1].message = jobs[2].message
    /\ jobs[3].message = jobs[4].message
    /\ jobs[2].message # jobs[3].message

\* The notification type handle_gift_event gives the step labelled l.
EventType(l) == IF l.op = "event" THEN NEW_GIFT ELSE GIFT_UPDATE

\* C30: a fan-out step for a 'new' or an 'updated' event makes exactly one
\* job, and queues it, for every enabled subscriber for whom
\* should_notify_user decides positively.
C30_OneJobPerAcceptedSubscriber ==
    [][ last'.op \in {"event", "event_updated"} =>
          \A u \in Users :
              ( /\ enabled[u]
                /\ should_notify_user(notification_history, u,
                       EventGift(last'), EventType(last'), now).ok )
                => /\ Cardinality(CreatedFor(u)) = 1
                   /\ \A k \in CreatedFor(u) :
                          Occurrences(queue', k) = 1 ]_vars

\* C31: after a poll whose raw API call failed (get_star_gifts caught the
\* exception and returned None), the monitor loop waits longer than
\* check_interval before it polls again.
C31_BackoffAfterFailure ==
    [][ (last'.op = "poll_failed" /\ source = "pyrogram") =>
          mon_wake_at' - now' > CheckInterval ]_vars

\* C32: when the lines a poll reads from the feed file include one that
\* json.loads rejects, the cycle makes no callback call for any record of
\* that read and leaves known_gifts as it was.
C32_MalformedPayloadSkipsCycle ==
    [][ ( /\ IsPoll(last')
          /\ source = "file"
          /\ \E i \in 1..Len(feed_unread) : ~feed_unread[i].json_ok )
        => /\ delivered' = << >>
           /\ known_gifts' = known_gifts ]_vars

\* The records a and b agree on sold_out, availability_remains and stars.
SameTracked(a, b) ==
    /\ a.sold_out = b.sold_out
    /\ a.availability_remains = b.availability_remains
    /\ a.stars = b.stars

\* C33: when a poll diffs a snapshot whose one record of a known gift
\* agrees with the stored record on sold_out, availability_remains and
\* stars, the cycle makes no callback call for the gift and the stored
\* record stays; when the record differs in one of the three, the stored
\* record becomes the new one and the gift is in the 'updated' list: no
\* 'new' call, and one 'updated' call if _should_notify accepts the record.
C33_TrackedFieldsDecide ==
    [][ (IsPoll(last') /\ diffed') =>
          \A i \in 1..Len(gifts_data'.gifts) :
              LET g == gifts_data'.gifts[i]
              IN  ( /\ g.id \in DOMAIN known_gifts
                    /\ PositionsOf(gifts_data'.gifts, g.id) = {i} )
                  => IF SameTracked(known_gifts[g.id], g)
                     THEN /\ known_gifts'[g.id] = known_gifts[g.id]
                          /\ Events(delivered', g.id, "new") = {}
                          /\ Events(delivered', g.id, "updated") = {}
                     ELSE /\ known_gifts'[g.id] = g
                          /\ Events(delivered', g.id, "new") = {}
                          /\ Cardinality(Events(delivered', g.id, "updated"))
                                 = IF should_notify(g) THEN 1 ELSE 0 ]_vars

\* A poll has just diffed a record of the known gift that differs from the
\* stored record, but in no tracked field: the stored record is still the
\* old one and nothing was called.
C33_Witness ==
    /\ IsPoll(last)
    /\ diffed
    /\ Len(gifts_data.gifts) = 1
    /\ gifts_data.gifts[1].id \in DOMAIN known_gifts
    /\ known_gifts[gifts_data.gifts[1].id] # gifts_data.gifts[1]
    /\ SameTracked(known_gifts[gifts_data.gifts[1].id], gifts_data.gifts[1])
    /\ should_notify(gifts_data.gifts[1])
    /\ delivered = << >>

\* The record the diff loop compares the record at position p of the list
\* gifts with: the one the list holds for the same id before p, if any,
\* else the one known holds.
ComparedWith(known, gifts, p) ==
    LET earlier == { i \in 1..(p - 1) : gifts[i].id = gifts[p].id }
    IN  IF earlier = {} THEN known[gifts[p].id]
        ELSE gifts[CHOOSE i \in earlier : \A k \in earlier : k <= i]

\* C34: start_monitoring stores every gift of its first fetch in
\* known_gifts and calls nothing; afterwards a callback call for such a gift
\* is never a 'new' call, and it is an 'updated' call only for a record
\* that differs in a tracked field from the one it was compared with.
C34_BaselineSilent ==
    [][ /\ last'.op = "start" =>
               /\ delivered' = << >>
               /\ baseline' # {}
               /\ baseline' \subseteq DOMAIN known_gifts'
        /\ IsPoll(last') =>
               \A k \in 1..Len(delivered') :
                   LET c == delivered'[k]
                   IN  c.gift.id \in baseline' =>
                           /\ c.event_type = "updated"
                           /\ ~SameTracked(c.gift,
                                  ComparedWith(known_gifts,
                                               gifts_data'.gifts, c.pos))
      ]_vars

\* A poll has just announced a gift of the first fetch as 'updated'.
C34_Witness ==
    /\ IsPoll(last)
    /\ diffed
    /\ \E k \in 1..Len(delivered) :
           /\ delivered[k].gift.id \in baseline
           /\ delivered[k].event_type = "updated"

\* The gift record is limited, not sold out and costs stars.
Notifiable(g) == g.limited /\ ~g.sold_out /\ g.stars > 0

\* C35: every callback call of a poll cycle is for a record that is
\* limited, not sold out and has stars > 0, and every job made is for the
\* gift of such a call; a record that the diff finds new or changed and
\* that is unlimited, sold out or free is stored in known_gifts and gets no
\* callback call and no job.
C35_CallbackGate ==
    [][ /\ Len(jobs') > Len(jobs) => IsPoll(last')
        /\ IsPoll(last') =>
              /\ \A c \in 1..Len(delivered') : Notifiable(delivered'[c].gift)
              /\ \A k \in (Len(jobs) + 1)..Len(jobs') :
                     \E c \in 1..Len(delivered') :
                         delivered'[c].gift.id = jobs'[k].message
              /\ diffed' =>
                     \A i \in 1..Len(gifts_data'.gifts) :
                         LET g == gifts_data'.gifts[i]
                         IN  ( /\ PositionsOf(gifts_data'.gifts, g.id) = {i}
                               /\ ~Notifiable(g)
                               /\ \/ g.id \notin DOMAIN known_gifts
                                  \/ ~SameTracked(known_gifts[g.id], g) )
                             => /\ known_gifts'[g.id] = g
                                /\ \A c \in 1..Len(delivered') :
                                       delivered'[c].pos # i
                                /\ \A k \in (Len(jobs) + 1)..Len(jobs') :
                                       jobs'[k].message # g.id ]_vars

\* The first fetch failed and the first poll, in the same second, has just
\* found gift 1 as a new gift with a free record: the record is stored,
\* nothing was called and no job exists.
C35_Witness ==
    /\ IsPoll(last)
    /\ diffed
    /\ now = 0
    /\ baseline = {}
    /\ gifts_data.gifts[1].stars = 0
    /\ gifts_data.gifts[1].limited
    /\ ~gifts_data.gifts[1].sold_out
    /\ known_gifts = (1 :> gifts_data.gifts[1])
    /\ delivered = << >>
    /\ jobs = << >>

\* C36: with no job made any more, every send returning and the drain loop
\* running on, the queue becomes empty with nothing in flight, and by then
\* every job has been acknowledged or counted in total_failed.
C36_QueueDrains ==
    <>( /\ queue = << >>
        /\ job = None
        /\ \A k \in 1..Len(jobs) :
               audit[k].acks >= 1 \/ audit[k].counted >= 1 )

\* C37: a poll that reads gift records from the feed file, moving the read
\* position past their lines, runs the diff on them.
C37_ConsumedLinesDiffed ==
    [][ ( /\ source = "file"
          /\ IsPoll(last')
          /\ file_offset' > file_offset )
        => diffed' ]_vars

\* The task at position p is inside the while loop of start_processing.
InLoop(p) == p \in {"idle", "send"}

\* C38: whatever the order of start_processing and stop_processing calls,
\* no two tasks are inside the drain loop while running is set.
C38_SingleDrainLoop ==
    ~(running /\ InLoop(pc) /\ InLoop(other.pc))

\* Jobs the drain loop has taken from the queue and not yet finished.
InFlightCount == IF job = None THEN 0 ELSE 1

\* C39: the number of jobs the fan-out has made equals total_sent plus
\* total_failed plus the length of the queue plus the jobs in flight.
C39_JobConservation ==
    Len(jobs) = stats.total_sent + stats.total_failed + Len(queue)
                    + InFlightCount

====
